---- MODULE Spec2Model ----
(***************************************************************************)
(* VeoBatch: the queue processor of App (processQueue and the handlers     *)
(* around it) and the remote operation driver generateVideo of             *)
(* services/geminiService.ts, as one state machine.                        *)
(*                                                                         *)
(* The program is single threaded: a step of the model is one run of the  *)
(* JavaScript event loop from one suspension point (an await on a remote  *)
(* call, a timer or a file read) to the next, or one user event.          *)
(*                                                                         *)
(*   Spec        the application: job store, passes, user events, driver  *)
(*   SpecDriver  one run of generateVideo for every input and every       *)
(*               behaviour of the remote API, cancellable at any moment   *)
(*   SpecKey     sanitizeKey applied to every short string                *)
(***************************************************************************)
EXTENDS Integers, Sequences, FiniteSets, TLC

\* ------------------------------------------------------------------ bounds
\* Jobs ever enqueued in one behaviour of Spec.
MaxJobs == 2
\* Files handed to handleAddFiles in one call.
MaxFilesPerAdd == 2
\* Retryable failures the remote API answers in a row to one driver run of
\* Spec. SpecDriver leaves the remote API unrestricted.
MaxRemoteFailures == 1
\* Submission calls of one run that resolve with no operation object.
MaxEmptyReplies == 1
\* Length of the strings handed to sanitizeKey in SpecKey.
MaxKeyLen == 5

\* ------------------------------------------------------- program constants
MAX_START_RETRIES == 50
MAX_POLLING_RETRIES == 120
InitialBackoff == 20000
MaxBackoff == 120000
PollInterval == 10000
PollRateLimitWait == 20000

\* ------------------------------------------------------------------ strings
\* A string is a sequence of characters. The characters that matter to the
\* code are the two quote characters, white space and any other character.
DQ == "dq"
SQ == "sq"
WS == "ws"
CH == "ch"
Chars == {DQ, SQ, WS, CH}

\* JavaScript's undefined, where a string is expected.
Undefined == <<"undefined">>

RECURSIVE TrimStart(_)
TrimStart(s) ==
  IF s # <<>> /\ Head(s) = WS THEN TrimStart(Tail(s)) ELSE s

RECURSIVE TrimEnd(_)
TrimEnd(s) ==
  IF s # <<>> /\ s[Len(s)] = WS THEN TrimEnd(SubSeq(s, 1, Len(s) - 1)) ELSE s

\* String.prototype.trim
Trim(s) == TrimEnd(TrimStart(s))

StartsWith(s, c) == s # <<>> /\ Head(s) = c
EndsWith(s, c) == s # <<>> /\ s[Len(s)] = c

\* k.slice(1, -1)
SliceInner(k) == SubSeq(k, 2, Len(k) - 1)

\* A value is falsy when it is undefined or the empty string.
Falsy(s) == s = Undefined \/ s = <<>>

\* a || b on strings
OrElse(a, b) == IF Falsy(a) THEN b ELSE a

sanitizeKey(key) ==
  IF Falsy(key) THEN Undefined
  ELSE LET k == Trim(key)
       IN IF (StartsWith(k, DQ) /\ EndsWith(k, DQ))
             \/ (StartsWith(k, SQ) /\ EndsWith(k, SQ))
          THEN SliceInner(k)
          ELSE k

\* customApiKey?.trim() || getEnvApiKey(), then sanitizeKey
ResolveApiKey(customKey, envKey) ==
  sanitizeKey(OrElse(IF customKey = Undefined THEN Undefined ELSE Trim(customKey),
                     envKey))

\* ---------------------------------------------------------------- settings
\* A VertexConfig as generateVideo receives it; defined = FALSE is undefined.
NoVertex ==
  [defined |-> FALSE, projectId |-> <<>>, location |-> <<>>, accessToken |-> <<>>]

VertexOf(p, l, t) ==
  [defined |-> TRUE, projectId |-> p, location |-> l, accessToken |-> t]

\* The arguments processQueue hands to generateVideo from the settings.
CustomKeyArg(s) == IF s.authMode = "aistudio" THEN s.customApiKey ELSE Undefined
VertexArg(s) == IF s.authMode = "vertex" THEN s.vertexConfig ELSE NoVertex

\* ------------------------------------------------------------ remote errors
\* What a rejected remote call carries: status and code (0 when absent), the
\* markers found in its serialized form, and whether it has a message.
RemoteError(st, cd, mk, msg) ==
  [status |-> st, code |-> cd, markers |-> mk, hasMessage |-> msg]

RemoteErrors ==
  { RemoteError(429, 0, {}, TRUE),
    RemoteError(0, 429, {}, TRUE),
    RemoteError(0, 0, {"RESOURCE_EXHAUSTED"}, TRUE),
    RemoteError(0, 0, {"quota"}, TRUE),
    RemoteError(503, 0, {}, TRUE),
    RemoteError(500, 0, {}, FALSE),
    RemoteError(404, 0, {}, TRUE),
    RemoteError(0, 404, {"NOT_FOUND"}, TRUE),
    RemoteError(0, 0, {"Requested entity was not found"}, TRUE),
    RemoteError(404, 0, {"RESOURCE_EXHAUSTED"}, TRUE),
    RemoteError(400, 0, {}, TRUE),
    RemoteError(403, 0, {}, FALSE) }

\* errorString.includes(text): JSON.stringify writes the status and the code
\* into the string, so their digits are found as well.
Includes(e, text) ==
  \/ text \in e.markers
  \/ text = "429" /\ (e.status = 429 \/ e.code = 429)
  \/ text = "404" /\ (e.status = 404 \/ e.code = 404)

StartIsRateLimit(e) ==
  \/ e.status = 429
  \/ e.code = 429
  \/ Includes(e, "429")
  \/ Includes(e, "RESOURCE_EXHAUSTED")
  \/ Includes(e, "quota")

\* A classification that takes every HTTP error status for a transient one.
StartIsTransientAnyStatus(e) == e.status >= 400

StartIsTransient(e) == e.status = 503 \/ e.status = 500

PollIsNotFound(e) ==
  \/ Includes(e, "404")
  \/ Includes(e, "NOT_FOUND")
  \/ Includes(e, "Requested entity was not found")
  \/ e.status = 404
  \/ e.code = 404

PollIsRateLimit(e) ==
  \/ e.status = 429
  \/ e.code = 429
  \/ Includes(e, "429")
  \/ Includes(e, "RESOURCE_EXHAUSTED")

\* No catch block is being executed.
NoCaught == RemoteError(0, 0, {"none"}, FALSE)

\* -------------------------------------------------------- remote operations
\* An operation snapshot: exists = FALSE is no object at all. error is
\* "none", "message" (a payload with a message) or "bare" (one without);
\* reasons is response.raiMediaFilteredReasons; uri is the first video's
\* uri: "none", "url" (parses as a URL) or "text" (does not).
Operation(ex, nm, dn, er, rs, ur) ==
  [exists |-> ex, hasName |-> nm, done |-> dn, error |-> er, reasons |-> rs, uri |-> ur]

NoOperation == Operation(FALSE, FALSE, FALSE, "none", <<>>, "none")
RunningOperation == Operation(TRUE, TRUE, FALSE, "none", <<>>, "none")

Reasons == { <<>>, <<"r1">>, <<"r2", "r1">> }

DoneOperations ==
  { Operation(TRUE, TRUE, TRUE, er, rs, ur) :
      er \in {"none", "message", "bare"}, rs \in Reasons, ur \in {"none", "url", "text"} }

\* What a submission call may resolve with.
SubmitReplies ==
  { NoOperation, RunningOperation, Operation(TRUE, FALSE, FALSE, "none", <<>>, "none") }
    \cup DoneOperations

\* What a status call may resolve with.
StatusReplies == { RunningOperation } \cup DoneOperations

\* A remote API: the replies and errors it answers with, and how many
\* retryable failures it answers in a row to one run.
Remote(sr, er, st, n) ==
  [submitReplies |-> sr, errors |-> er, statusReplies |-> st, failures |-> n]

\* ------------------------------------------------------------------ outcomes
\* How a run of generateVideo ends: with the blob, or with an error that has
\* a name and a message.
NoOutcome == [kind |-> "none", name |-> "", message |-> <<"">>]
Returned == [kind |-> "blob", name |-> "", message |-> <<"">>]
Thrown(n, m) == [kind |-> "error", name |-> n, message |-> m]

AbortError == Thrown("AbortError", <<"Aborted">>)
MissingLocation == Thrown("Error", <<"Vertex AI requires a Location (e.g., us-central1).">>)
MissingCredentials ==
  Thrown("Error", <<"Missing Credentials. Please set an API Key (AI Studio) or Project/Token (Vertex AI) in Settings.">>)
EncodeFailed == Thrown("Error", <<"file read failed">>)
RetriesExhausted ==
  Thrown("Error", <<"Rate limit or server capacity exhausted after multiple retries. Please try again later.">>)
StartFailed(e) ==
  Thrown("Error", IF e.hasMessage THEN <<"remote message">>
                  ELSE <<"Failed to start generation">>)
NoOperationName ==
  Thrown("Error", <<"Failed to start video generation: No operation name returned.">>)
PollingTimeout ==
  Thrown("Error", <<"Operation timed out: Resource not found after multiple retries.">>)
\* throw error: the remote error itself, whose message may be missing.
PollFailed(e) ==
  Thrown("Error", IF e.hasMessage THEN <<"remote message">> ELSE <<>>)
OperationFailed(op) ==
  Thrown("Error", IF op.error = "message" THEN <<"operation error message">>
                  ELSE <<"Unknown error during video generation">>)
ContentFiltered(reason) ==
  Thrown("Error", <<"Content blocked by safety filter: ", reason>>)
NoVideoUri ==
  Thrown("Error", <<"No video URI returned. Check console for operation details.">>)
DownloadError(m) == Thrown("Error", <<"Video download error: ", m>>)

\* ---------------------------------------------------------------- progress
\* A progress text. The retry text carries the reason, the wait in seconds
\* and the attempt number; the other texts are fixed.
ProgressText(t, r, sec, n) == [text |-> t, reason |-> r, seconds |-> sec, attempt |-> n]
Fixed(t) == ProgressText(t, "", 0, 0)
NoProgress == Fixed("undefined")

\* Math.round(ms / 1000)
RoundSeconds(ms) == (ms + 500) \div 1000

RetryReason(e) ==
  IF StartIsRateLimit(e) THEN "Rate limit (429)" ELSE "Server error"

\* --------------------------------------------------------------------- jobs
PENDING == "PENDING"
PROCESSING == "PROCESSING"
COMPLETED == "COMPLETED"
FAILED == "FAILED"

NewJob(i) ==
  [id |-> i, file |-> i, status |-> PENDING, progress |-> NoProgress,
   videoUrl |-> "undefined", error |-> Undefined]

\* prev.map(j => j.id === id ? f(j) : j)
MapJob(js, i, f(_)) ==
  [k \in DOMAIN js |-> IF js[k].id = i THEN f(js[k]) ELSE js[k]]

\* A progress update that writes the text to every job of the store.
SetProgressOfAll(js, i, p) ==
  [k \in DOMAIN js |-> [js[k] EXCEPT !.progress = p]]

SetProgress(js, i, p) ==
  LET f(j) == [j EXCEPT !.progress = p] IN MapJob(js, i, f)

\* A download request: the key query parameter and the authorization header
\* it carries (Undefined when it carries none).
NoRequest == [sent |-> FALSE, keyParam |-> Undefined, bearer |-> Undefined]
Request(k, b) == [sent |-> TRUE, keyParam |-> k, bearer |-> b]

\* -------------------------------------------------------------------- state
VARIABLES
  jobs,               \* useState: the job store, in enqueue order
  isProcessing,       \* useState: the active-batch marker
  abortControllerRef, \* useRef: "null" or "controller"
  settings,           \* useState: authMode, customApiKey, vertexConfig
  envApiKey,          \* process.env.API_KEY
  nextId,             \* the jobs enqueued so far
  pendingJobs,        \* processQueue: the pass's list of jobs
  idx,                \* processQueue: the position of the for loop
  passSettings,       \* processQueue: the settings its closure captured
  job,                \* processQueue: the id of the loop's job (0: none)
  lastStarted,        \* history: the id of the job generateVideo was last called for
  signalAborted,      \* controller.signal.aborted of the pass's controller
  pc,                 \* where the asynchronous chain is suspended
  argKey,             \* generateVideo: customApiKey
  argVertex,          \* generateVideo: vertexConfig
  usingVertex,        \* generateVideo: usingVertex
  apiKey,             \* generateVideo: the key the client was built with
  startAttempt,       \* generateVideo: startAttempt
  startBackoff,       \* generateVideo: startBackoff
  operation,          \* generateVideo: operation / updatedOperation
  retryCount,         \* generateVideo: retryCount
  waitMs,             \* the delay of the timer the run waits on (0: none)
  request,            \* the download request the run has sent
  outcome,            \* how the run of generateVideo ended
  abortedAt,          \* history: where the run was suspended when abort() was called
  caught,             \* generateVideo: error of the catch block the run is in
  startCalls,         \* submission calls made by the submission loop
  startWaits,         \* backoff waits started by the submission loop
  emptyReplies,       \* submission calls that resolved with no operation
  key,                \* SpecKey: the string handed to sanitizeKey
  sanitized           \* SpecKey: what sanitizeKey returned (or "pending")

queueVars ==
  <<isProcessing, abortControllerRef, settings, envApiKey, nextId, pendingJobs,
    idx, passSettings, job, lastStarted>>
argVars == <<argKey, argVertex>>
credVars == <<usingVertex, apiKey>>
startVars == <<startAttempt, startBackoff, startCalls, startWaits, emptyReplies>>
pollVars == <<operation, retryCount>>
keyVars == <<key, sanitized>>
vars ==
  <<jobs, queueVars, signalAborted, pc, argVars, credVars, startVars, pollVars,
    waitMs, request, outcome, abortedAt, caught, keyVars>>

\* The suspension points of a run of generateVideo.
WaitPcs == {"backoffWait", "initialWait", "pollWait", "rateWait"}
CallPcs == {"submitCall", "statusCall"}
DownloadPcs == {"fetch", "blob"}
SuspendedPcs == {"encode"} \cup WaitPcs \cup CallPcs \cup DownloadPcs

\* ------------------------------------------------------------ generateVideo
\* What every step of a run decides: where it suspends next (or how the run
\* ends), the timer it waits on, the download request and the job store.
Ctl(p, o, w, r, j) ==
  /\ pc' = p
  /\ outcome' = o
  /\ waitMs' = w
  /\ request' = r
  /\ jobs' = j

Throw(e) == Ctl("returned", e, 0, request, jobs)

\* onProgress as processQueue passes it: the text goes to the loop's job.
onProgress(p) == SetProgress(jobs, job, p)

\* wait(ms, signal): rejects at once when the signal is already aborted.
wait(p, ms, j) ==
  IF signalAborted
  THEN Ctl("returned", AbortError, 0, request, j)
  ELSE Ctl(p, NoOutcome, ms, request, j)

\* The INITIALIZATION LOGIC: which client the run builds, or the error.
Credential(m, k, e) == [mode |-> m, apiKey |-> k, error |-> e]

\* An initialization that takes the delegated path without asking for a token.
ResolveCredentialWithoutToken(vc, customKey, envKey) ==
  IF vc.defined /\ ~Falsy(vc.projectId)
  THEN IF Falsy(vc.location)
       THEN Credential("error", Undefined, MissingLocation)
       ELSE Credential("vertex", Undefined, NoOutcome)
  ELSE LET k == ResolveApiKey(customKey, envKey)
       IN IF Falsy(k)
          THEN Credential("error", Undefined, MissingCredentials)
          ELSE Credential("key", k, NoOutcome)

\* An initialization that goes on to the key when the location is missing.
ResolveCredentialFallsThrough(vc, customKey, envKey) ==
  IF vc.defined /\ ~Falsy(vc.projectId) /\ ~Falsy(vc.accessToken) /\ ~Falsy(vc.location)
  THEN Credential("vertex", Undefined, NoOutcome)
  ELSE LET k == ResolveApiKey(customKey, envKey)
       IN IF Falsy(k)
          THEN Credential("error", Undefined, MissingCredentials)
          ELSE Credential("key", k, NoOutcome)

ResolveCredential(vc, customKey, envKey) ==
  IF vc.defined /\ ~Falsy(vc.projectId) /\ ~Falsy(vc.accessToken)
  THEN IF Falsy(vc.location)
       THEN Credential("error", Undefined, MissingLocation)
       ELSE Credential("vertex", Undefined, NoOutcome)
  ELSE LET k == ResolveApiKey(customKey, envKey)
       IN IF Falsy(k)
          THEN Credential("error", Undefined, MissingCredentials)
          ELSE Credential("key", k, NoOutcome)

\* generateVideo from its call to its first await.
GenStart ==
  /\ pc = "genStart"
  /\ UNCHANGED <<queueVars, signalAborted, argVars, startVars, pollVars, abortedAt, caught, keyVars>>
  /\ IF signalAborted
     THEN Throw(AbortError) /\ UNCHANGED credVars
     ELSE LET c == ResolveCredential(argVertex, argKey, envApiKey)
          IN IF c.mode = "error"
             THEN Throw(c.error) /\ UNCHANGED credVars
             ELSE /\ usingVertex' = (c.mode = "vertex")
                  /\ apiKey' = c.apiKey
                  /\ Ctl("encode", NoOutcome, 0, NoRequest, onProgress(Fixed("Encoding image...")))

\* A loop head that submits without looking at the signal.
SubmitTopUnchecked(j, calls) ==
  Ctl("submitCall", NoOutcome, 0, request, j) /\ startCalls' = calls + 1

\* The head of while (!operation): the abort check, then the submission call.
SubmitTop(j, calls) ==
  IF signalAborted
  THEN Ctl("returned", AbortError, 0, request, j) /\ startCalls' = calls
  ELSE Ctl("submitCall", NoOutcome, 0, request, j) /\ startCalls' = calls + 1

\* fileToBase64 resolves: the submission loop starts.
EncodeResolves ==
  /\ pc = "encode"
  /\ UNCHANGED <<queueVars, signalAborted, argVars, credVars, retryCount, abortedAt, caught, keyVars>>
  /\ startAttempt' = 0
  /\ startBackoff' = InitialBackoff
  /\ startWaits' = 0
  /\ emptyReplies' = 0
  /\ operation' = NoOperation
  /\ SubmitTop(onProgress(Fixed("Initializing generation...")), 0)

\* fileToBase64 rejects.
EncodeRejects ==
  /\ pc = "encode"
  /\ UNCHANGED <<queueVars, signalAborted, argVars, credVars, startVars, pollVars, abortedAt, caught, keyVars>>
  /\ Throw(EncodeFailed)

\* A backoff that doubles.
TimesTwo(ms) == ms * 2

\* startBackoff * 1.5, exact on every value the run reaches.
TimesOneAndAHalf(ms) == (ms * 3) \div 2

Min(a, b) == IF a <= b THEN a ELSE b

NextBackoff(ms) == Min(TimesOneAndAHalf(ms), MaxBackoff)

\* A download that puts the key in the URL whatever the credential is.
DownloadWithKeyAlways(op) ==
  LET j == onProgress(Fixed("Downloading result..."))
      k == ResolveApiKey(argKey, envApiKey)
      r == Request(IF Falsy(k) THEN Undefined ELSE k,
                   IF usingVertex THEN Trim(argVertex.accessToken) ELSE Undefined)
  IN IF op.uri = "text"
     THEN Ctl("returned", DownloadError("Invalid URL"), 0, request, j)
     ELSE IF signalAborted
     THEN Ctl("returned", DownloadError("The user aborted a request."), 0, request, j)
     ELSE Ctl("fetch", NoOutcome, 0, r, j)

\* The download request of lines 248-286, up to the await on fetch.
Download(op) ==
  LET j == onProgress(Fixed("Downloading result..."))
      r == IF usingVertex
           THEN Request(Undefined, Trim(argVertex.accessToken))
           ELSE LET k == ResolveApiKey(argKey, envApiKey)
                IN Request(IF Falsy(k) THEN Undefined ELSE k, Undefined)
  IN IF op.uri = "text"
     THEN Ctl("returned", DownloadError("Invalid URL"), 0, request, j)
     ELSE IF signalAborted
     THEN Ctl("returned", DownloadError("The user aborted a request."), 0, request, j)
     ELSE Ctl("fetch", NoOutcome, 0, r, j)

\* An extraction that looks for the video locator before the filter reasons.
ExtractLocatorFirst(op) ==
  IF op.error # "none"
  THEN Throw(OperationFailed(op))
  ELSE IF op.uri # "none"
  THEN Download(op)
  ELSE IF Len(op.reasons) > 0
  THEN Throw(ContentFiltered(op.reasons[1]))
  ELSE Throw(NoVideoUri)

\* An extraction that looks at the error payload last.
ExtractErrorLast(op) ==
  IF Len(op.reasons) > 0
  THEN Throw(ContentFiltered(op.reasons[1]))
  ELSE IF op.uri # "none"
  THEN Download(op)
  ELSE IF op.error # "none"
  THEN Throw(OperationFailed(op))
  ELSE Throw(NoVideoUri)

\* Lines 226-245: what a completed operation yields.
Extract(op) ==
  IF op.error # "none"
  THEN Throw(OperationFailed(op))
  ELSE IF Len(op.reasons) > 0
  THEN Throw(ContentFiltered(op.reasons[1]))
  ELSE IF op.uri = "none"
  THEN Throw(NoVideoUri)
  ELSE Download(op)

\* The head of while (!updatedOperation.done).
PollLoop(op) ==
  IF op.done
  THEN Extract(op)
  ELSE IF signalAborted
  THEN Throw(AbortError)
  ELSE wait("pollWait", PollInterval, jobs)

\* The locals of the submission loop are not read after it: the model drops
\* them when the loop is left with an operation.
LeaveSubmitLoop ==
  /\ startAttempt' = 0
  /\ startBackoff' = InitialBackoff
  /\ startCalls' = 0
  /\ startWaits' = 0
  /\ emptyReplies' = 0

\* A submission that goes on to poll whatever operation it was given.
SubmitResolvesWithoutNameCheck(remote) ==
  /\ pc = "submitCall"
  /\ UNCHANGED <<queueVars, signalAborted, argVars, credVars, abortedAt, caught, keyVars>>
  /\ \E op \in remote.submitReplies :
       IF ~op.exists
       THEN /\ emptyReplies < MaxEmptyReplies
            /\ emptyReplies' = emptyReplies + 1
            /\ UNCHANGED <<startAttempt, startBackoff, startWaits, pollVars>>
            /\ SubmitTop(jobs, startCalls)
       ELSE /\ LeaveSubmitLoop
            /\ operation' = op
            /\ retryCount' = 0
            /\ wait("initialWait", PollInterval,
                    onProgress(Fixed("Generating video (this may take a minute)...")))

\* ai.models.generateVideos resolves, with one of the remote API's replies.
SubmitResolves(remote) ==
  /\ pc = "submitCall"
  /\ UNCHANGED <<queueVars, signalAborted, argVars, credVars, abortedAt, caught, keyVars>>
  /\ \E op \in remote.submitReplies :
       IF ~op.exists
       THEN /\ emptyReplies < MaxEmptyReplies
            /\ emptyReplies' = emptyReplies + 1
            /\ UNCHANGED <<startAttempt, startBackoff, startWaits, pollVars>>
            /\ SubmitTop(jobs, startCalls)
       ELSE /\ LeaveSubmitLoop
            /\ operation' = op
            /\ retryCount' = 0
            /\ IF ~op.hasName
               THEN Throw(NoOperationName)
               ELSE wait("initialWait", PollInterval,
                         onProgress(Fixed("Generating video (this may take a minute)...")))

StartIsRetryable(e) == StartIsRateLimit(e) \/ StartIsTransient(e)

\* A submission loop that gives up one failure early.
StartExhaustedOneEarly(n) == n >= MAX_START_RETRIES

\* A polling loop that gives up one failure late.
PollExhaustedOneLate(n) == n > MAX_POLLING_RETRIES

\* Line 144, on the attempt counter just incremented.
StartRetriesExhausted(n) == n > MAX_START_RETRIES

\* Line 210, on the not-found counter just incremented.
PollRetriesExhausted(n) == n >= MAX_POLLING_RETRIES

\* ai.models.generateVideos rejects, with one of the remote API's errors.
SubmitRejects(remote) ==
  /\ pc = "submitCall"
  /\ UNCHANGED <<queueVars, signalAborted, argVars, credVars, pollVars, abortedAt, keyVars>>
  /\ UNCHANGED <<startBackoff, startCalls, emptyReplies>>
  /\ \E e \in remote.errors :
       /\ StartIsRetryable(e) => startAttempt < remote.failures
       /\ caught' = e
       /\ IF signalAborted
          THEN Throw(AbortError) /\ UNCHANGED <<startAttempt, startWaits>>
          ELSE IF StartIsRetryable(e)
          THEN /\ startAttempt' = startAttempt + 1
               /\ IF StartRetriesExhausted(startAttempt + 1)
                  THEN Throw(RetriesExhausted) /\ UNCHANGED startWaits
                  ELSE /\ startWaits' = startWaits + 1
                       /\ wait("backoffWait", startBackoff,
                               onProgress(ProgressText("Waiting before retry", RetryReason(e),
                                                       RoundSeconds(startBackoff),
                                                       startAttempt + 1)))
          ELSE Throw(StartFailed(e)) /\ UNCHANGED <<startAttempt, startWaits>>

\* The backoff timer fires: the backoff grows and the loop tries again.
BackoffElapsed ==
  /\ pc = "backoffWait"
  /\ UNCHANGED <<queueVars, signalAborted, argVars, credVars, pollVars, abortedAt, keyVars>>
  /\ caught' = NoCaught
  /\ UNCHANGED <<startAttempt, startWaits, emptyReplies>>
  /\ startBackoff' = NextBackoff(startBackoff)
  /\ SubmitTop(jobs, startCalls)

\* The initial 10 s timer fires: the polling loop starts.
InitialWaitElapsed ==
  /\ pc = "initialWait"
  /\ UNCHANGED <<queueVars, signalAborted, argVars, credVars, startVars, pollVars, abortedAt, caught, keyVars>>
  /\ PollLoop(operation)

\* The poll timer fires: the status call is made.
PollWaitElapsed ==
  /\ pc = "pollWait"
  /\ UNCHANGED <<queueVars, signalAborted, argVars, credVars, startVars, pollVars, abortedAt, keyVars>>
  /\ caught' = NoCaught
  /\ Ctl("statusCall", NoOutcome, 0, request, jobs)

\* ai.operations.getVideosOperation resolves.
StatusResolves(remote) ==
  /\ pc = "statusCall"
  /\ UNCHANGED <<queueVars, signalAborted, argVars, credVars, startVars, abortedAt, caught, keyVars>>
  /\ \E op \in remote.statusReplies :
       /\ operation' = op
       /\ retryCount' = 0
       /\ PollLoop(op)

\* A catch block that looks for the rate limit before the missing resource.
StatusRejectsRateLimitFirst(remote) ==
  /\ pc = "statusCall"
  /\ UNCHANGED <<queueVars, signalAborted, argVars, credVars, startVars, operation, abortedAt, keyVars>>
  /\ \E e \in remote.errors :
       /\ PollIsNotFound(e) => retryCount < remote.failures
       /\ caught' = e
       /\ IF signalAborted
          THEN Throw(AbortError) /\ UNCHANGED retryCount
          ELSE IF PollIsRateLimit(e)
          THEN wait("rateWait", PollRateLimitWait, jobs) /\ UNCHANGED retryCount
          ELSE IF PollIsNotFound(e)
          THEN /\ retryCount' = retryCount + 1
               /\ IF PollRetriesExhausted(retryCount + 1)
                  THEN Throw(PollingTimeout)
                  ELSE PollLoop(operation)
          ELSE Throw(PollFailed(e)) /\ UNCHANGED retryCount

\* ai.operations.getVideosOperation rejects.
StatusRejects(remote) ==
  /\ pc = "statusCall"
  /\ UNCHANGED <<queueVars, signalAborted, argVars, credVars, startVars, operation, abortedAt, keyVars>>
  /\ \E e \in remote.errors :
       /\ PollIsNotFound(e) => retryCount < remote.failures
       /\ caught' = e
       /\ IF signalAborted
          THEN Throw(AbortError) /\ UNCHANGED retryCount
          ELSE IF PollIsNotFound(e)
          THEN /\ retryCount' = retryCount + 1
               /\ IF PollRetriesExhausted(retryCount + 1)
                  THEN Throw(PollingTimeout)
                  ELSE PollLoop(operation)
          ELSE IF PollIsRateLimit(e)
          THEN wait("rateWait", PollRateLimitWait, jobs) /\ UNCHANGED retryCount
          ELSE Throw(PollFailed(e)) /\ UNCHANGED retryCount

\* The 20 s timer after a rate-limited status call fires.
RateWaitElapsed ==
  /\ pc = "rateWait"
  /\ UNCHANGED <<queueVars, signalAborted, argVars, credVars, startVars, pollVars, abortedAt, keyVars>>
  /\ caught' = NoCaught
  /\ PollLoop(operation)

\* fetch resolves with a response, ok or not.
FetchResolves ==
  /\ pc = "fetch"
  /\ UNCHANGED <<queueVars, signalAborted, argVars, credVars, startVars, pollVars, abortedAt, caught, keyVars>>
  /\ \E ok \in BOOLEAN :
       IF ok
       THEN Ctl("blob", NoOutcome, 0, request, jobs)
       ELSE Throw(DownloadError("Download failed: statusText"))

\* fetch rejects: the transport failed.
FetchRejects ==
  /\ pc = "fetch"
  /\ UNCHANGED <<queueVars, signalAborted, argVars, credVars, startVars, pollVars, abortedAt, caught, keyVars>>
  /\ Throw(DownloadError("Failed to fetch"))

\* response.blob() resolves: generateVideo returns the blob.
BlobResolves ==
  /\ pc = "blob"
  /\ UNCHANGED <<queueVars, signalAborted, argVars, credVars, startVars, pollVars, abortedAt, caught, keyVars>>
  /\ Ctl("returned", Returned, 0, request, jobs)

\* response.blob() rejects.
BlobRejects ==
  /\ pc = "blob"
  /\ UNCHANGED <<queueVars, signalAborted, argVars, credVars, startVars, pollVars, abortedAt, caught, keyVars>>
  /\ Throw(DownloadError("body read failed"))

\* controller.abort(): the signal is set and its listeners run. A pending
\* wait rejects with AbortError; a pending fetch or body read rejects too,
\* and the catch of line 288 wraps that error; a remote call in flight goes on.
Abort ==
  /\ UNCHANGED <<queueVars, argVars, credVars, startVars, pollVars, caught, keyVars>>
  /\ signalAborted' = TRUE
  /\ abortedAt' = IF signalAborted THEN abortedAt ELSE pc
  /\ IF signalAborted
     THEN UNCHANGED <<pc, outcome, waitMs, request, jobs>>
     ELSE IF pc \in WaitPcs
     THEN Throw(AbortError)
     ELSE IF pc \in DownloadPcs
     THEN Throw(DownloadError("The user aborted a request."))
     ELSE UNCHANGED <<pc, outcome, waitMs, request, jobs>>

\* ------------------------------------------------------------- SpecDriver
\* The inputs of one run: the keys and delegated configurations a caller
\* may pass, and the ambient key.
KeyInputs ==
  { Undefined, <<>>, <<WS>>, <<CH>>, <<DQ, CH, DQ>>, <<DQ, DQ>>, <<WS, SQ, CH, SQ>> }

EnvKeys == { Undefined, <<CH, CH>> }

VertexInputs ==
  { NoVertex } \cup
  { VertexOf(p, l, t) : p \in {<<>>, <<CH>>}, l \in {<<>>, <<CH>>}, t \in {<<>>, <<CH, WS>>} }

DefaultSettings ==
  [authMode |-> "aistudio", customApiKey |-> <<>>,
   vertexConfig |-> VertexOf(<<>>, <<CH>>, <<>>)]

\* No run of generateVideo is under way and none has ended.
RunIdle ==
  /\ signalAborted = FALSE
  /\ argKey = Undefined
  /\ argVertex = NoVertex
  /\ usingVertex = FALSE
  /\ apiKey = Undefined
  /\ startAttempt = 0
  /\ startBackoff = InitialBackoff
  /\ startCalls = 0
  /\ startWaits = 0
  /\ emptyReplies = 0
  /\ operation = NoOperation
  /\ retryCount = 0
  /\ waitMs = 0
  /\ request = NoRequest
  /\ outcome = NoOutcome
  /\ abortedAt = "none"
  /\ caught = NoCaught

\* The application before the first file is added.
QueueIdle ==
  /\ jobs = <<>>
  /\ isProcessing = FALSE
  /\ abortControllerRef = "null"
  /\ settings = DefaultSettings
  /\ nextId = 0
  /\ pendingJobs = <<>>
  /\ idx = 0
  /\ passSettings = DefaultSettings
  /\ job = 0
  /\ lastStarted = 0

KeyIdle == key = Undefined /\ sanitized = <<"pending">>

\* generateVideo has just been called, with a signal that is not aborted.
InitDriver ==
  /\ QueueIdle
  /\ KeyIdle
  /\ envApiKey \in EnvKeys
  /\ pc = "genStart"
  /\ signalAborted = FALSE
  /\ argKey \in KeyInputs
  /\ argVertex \in VertexInputs
  /\ usingVertex = FALSE
  /\ apiKey = Undefined
  /\ startAttempt = 0
  /\ startBackoff = InitialBackoff
  /\ startCalls = 0
  /\ startWaits = 0
  /\ emptyReplies = 0
  /\ operation = NoOperation
  /\ retryCount = 0
  /\ waitMs = 0
  /\ request = NoRequest
  /\ outcome = NoOutcome
  /\ abortedAt = "none"
  /\ caught = NoCaught

\* The caller aborts the signal while the run is suspended.
AbortRun ==
  /\ pc \in SuspendedPcs
  /\ ~signalAborted
  /\ Abort

\* The remote API of SpecDriver answers anything, for as long as the run asks.
AnyRemote ==
  Remote(SubmitReplies, RemoteErrors, StatusReplies, MAX_POLLING_RETRIES + MAX_START_RETRIES)

NextDriver ==
  \/ GenStart
  \/ EncodeResolves
  \/ EncodeRejects
  \/ SubmitResolves(AnyRemote)
  \/ SubmitRejects(AnyRemote)
  \/ BackoffElapsed
  \/ InitialWaitElapsed
  \/ PollWaitElapsed
  \/ StatusResolves(AnyRemote)
  \/ StatusRejects(AnyRemote)
  \/ RateWaitElapsed
  \/ FetchResolves
  \/ FetchRejects
  \/ BlobResolves
  \/ BlobRejects
  \/ AbortRun

SpecDriver == InitDriver /\ [][NextDriver]_vars

\* ------------------------------------------------------------------- App
\* jobs.filter(j => P(j)), as a sequence in the same order
FilterJobs(js, P(_)) == SelectSeq(js, P)

IsPending(j) == j.status = PENDING

\* jobs.some(j => j.status === JobStatus.PENDING)
HasPending(js) == \E k \in DOMAIN js : js[k].status = PENDING

\* The ids of the jobs, newest first.
IdsNewestFirst(js) == [k \in DOMAIN js |-> js[Len(js) + 1 - k].id]

Ids(js) == [k \in DOMAIN js |-> js[k].id]

\* The effect restarts a pass whenever there are pending jobs.
EffectIgnoresMarker == HasPending(jobs)

\* The effect of lines 133-138 is about to call processQueue. React runs a
\* pending effect before it handles the next user event.
EffectDue == HasPending(jobs) /\ ~isProcessing

\* A user event is handled only between two runs of the event loop.
Quiescent == pc \in SuspendedPcs \cup {"idle"} /\ ~EffectDue

\* Line 83
MarkProcessing(js, i) ==
  LET f(j) == [j EXCEPT !.status = PROCESSING, !.progress = Fixed("Starting...")]
  IN MapJob(js, i, f)

\* A completion that clears the progress text.
MarkCompletedClearsProgress(js, i) ==
  LET f(j) == [j EXCEPT !.status = COMPLETED, !.videoUrl = "blob:", !.progress = NoProgress]
  IN MapJob(js, i, f)

\* Lines 99-104
MarkCompleted(js, i) ==
  LET f(j) == [j EXCEPT !.status = COMPLETED, !.videoUrl = "blob:", !.progress = Fixed("Done")]
  IN MapJob(js, i, f)

\* A failure that records the message as it is, empty or not.
MarkFailedWithRawMessage(js, i, m) ==
  LET f(j) == [j EXCEPT !.status = FAILED, !.error = m]
  IN MapJob(js, i, f)

\* A failed job is put back in line instead of being marked FAILED.
MarkFailedRequeues(js, i, m) ==
  LET f(j) == [j EXCEPT !.status = PENDING, !.error = IF Falsy(m) THEN <<"Failed">> ELSE m]
  IN MapJob(js, i, f)

\* Line 124
MarkFailed(js, i, m) ==
  LET f(j) == [j EXCEPT !.status = FAILED, !.error = IF Falsy(m) THEN <<"Failed">> ELSE m]
  IN MapJob(js, i, f)

\* A cancellation handler that stops every other job, whatever its status.
MarkCancelledStopsAll(js, i) ==
  [k \in DOMAIN js |->
     IF js[k].id = i
     THEN [js[k] EXCEPT !.status = FAILED, !.error = <<"Cancelled">>]
     ELSE [js[k] EXCEPT !.status = FAILED, !.error = <<"Stopped by user">>]]

\* Lines 109-115
MarkCancelled(js, i) ==
  [k \in DOMAIN js |->
     IF js[k].id = i
     THEN [js[k] EXCEPT !.status = FAILED, !.error = <<"Cancelled">>]
     ELSE IF js[k].status = PENDING
     THEN [js[k] EXCEPT !.status = FAILED, !.error = <<"Stopped by user">>]
     ELSE js[k]]

\* Line 107
IsCancellation(o) == o.name = "AbortError" \/ o.message = <<"Aborted">>

\* handleAddFiles: n new jobs, with fresh ids, go to the end of the store.
handleAddFiles(n) ==
  /\ Quiescent
  /\ nextId + n <= MaxJobs
  /\ jobs' = jobs \o [k \in 1..n |-> NewJob(nextId + k)]
  /\ nextId' = nextId + n
  /\ UNCHANGED <<isProcessing, abortControllerRef, settings, envApiKey, pendingJobs,
                 idx, passSettings, job, lastStarted>>
  /\ UNCHANGED <<signalAborted, pc, argVars, credVars, startVars, pollVars, waitMs,
                 request, outcome, abortedAt, caught, keyVars>>

\* A removal that is offered for every job of the store.
handleRemoveAnyJob(i) ==
  /\ Quiescent
  /\ \E k \in DOMAIN jobs : jobs[k].id = i
  /\ LET keep(j) == j.id # i IN jobs' = FilterJobs(jobs, keep)
  /\ UNCHANGED <<queueVars, signalAborted, pc, argVars, credVars, startVars, pollVars,
                 waitMs, request, outcome, abortedAt, caught, keyVars>>

\* handleRemoveJob, which JobCard offers for a job that is not PROCESSING.
handleRemoveJob(i) ==
  /\ Quiescent
  /\ \E k \in DOMAIN jobs : jobs[k].id = i /\ jobs[k].status # PROCESSING
  /\ LET keep(j) == j.id # i IN jobs' = FilterJobs(jobs, keep)
  /\ UNCHANGED <<queueVars, signalAborted, pc, argVars, credVars, startVars, pollVars,
                 waitMs, request, outcome, abortedAt, caught, keyVars>>

\* handleStop, offered while isProcessing.
handleStop ==
  /\ Quiescent
  /\ isProcessing
  /\ IF abortControllerRef # "null"
     THEN Abort
     ELSE UNCHANGED vars

\* handleClearAll, offered when there are jobs and no pass is active, with
\* the confirmation given.
handleClearAll ==
  /\ Quiescent
  /\ Len(jobs) > 0
  /\ ~isProcessing
  /\ jobs' = <<>>
  /\ UNCHANGED <<queueVars, signalAborted, pc, argVars, credVars, startVars, pollVars,
                 waitMs, request, outcome, abortedAt, caught, keyVars>>

\* The settings dialog: the user changes the authentication settings.
SettingsChoices ==
  { DefaultSettings,
    [authMode |-> "aistudio", customApiKey |-> <<DQ, CH, DQ>>,
     vertexConfig |-> VertexOf(<<>>, <<CH>>, <<>>)],
    [authMode |-> "vertex", customApiKey |-> <<CH>>,
     vertexConfig |-> VertexOf(<<CH>>, <<CH>>, <<CH>>)] }

ChangeSettings ==
  /\ Quiescent
  /\ \E s \in SettingsChoices : s # settings /\ settings' = s
  /\ UNCHANGED <<jobs, isProcessing, abortControllerRef, envApiKey, nextId, pendingJobs,
                 idx, passSettings, job, lastStarted>>
  /\ UNCHANGED <<signalAborted, pc, argVars, credVars, startVars, pollVars, waitMs,
                 request, outcome, abortedAt, caught, keyVars>>

\* The locals of a run of generateVideo that has not started.
FreshRun ==
  /\ usingVertex' = FALSE
  /\ apiKey' = Undefined
  /\ startAttempt' = 0
  /\ startBackoff' = InitialBackoff
  /\ startCalls' = 0
  /\ startWaits' = 0
  /\ emptyReplies' = 0
  /\ operation' = NoOperation
  /\ retryCount' = 0
  /\ waitMs' = 0
  /\ request' = NoRequest
  /\ outcome' = NoOutcome
  /\ caught' = NoCaught

\* A pass end that clears the marker and leaves the controller in the ref.
EndPassLeavesController ==
  /\ isProcessing' = FALSE
  /\ abortControllerRef' = abortControllerRef
  /\ signalAborted' = FALSE
  /\ pendingJobs' = <<>>
  /\ idx' = 0
  /\ job' = 0
  /\ argKey' = Undefined
  /\ argVertex' = NoVertex
  /\ abortedAt' = "none"
  /\ pc' = "idle"

\* A pass end that leaves the active-batch marker set.
EndPassKeepsMarker ==
  /\ isProcessing' = isProcessing
  /\ abortControllerRef' = "null"
  /\ signalAborted' = FALSE
  /\ pendingJobs' = <<>>
  /\ idx' = 0
  /\ job' = 0
  /\ argKey' = Undefined
  /\ argVertex' = NoVertex
  /\ abortedAt' = "none"
  /\ pc' = "idle"

\* Lines 128-129: the pass is over.
EndPass ==
  /\ isProcessing' = FALSE
  /\ abortControllerRef' = "null"
  /\ signalAborted' = FALSE
  /\ pendingJobs' = <<>>
  /\ idx' = 0
  /\ job' = 0
  /\ argKey' = Undefined
  /\ argVertex' = NoVertex
  /\ abortedAt' = "none"
  /\ pc' = "idle"

\* A processQueue that takes one controller for every pass: its signal is
\* set once a run of the store was cancelled.
processQueueSharedController ==
  /\ pc \in SuspendedPcs \cup {"idle"}
  /\ EffectDue
  /\ isProcessing' = TRUE
  /\ abortControllerRef' = "controller"
  /\ signalAborted' = \E k \in DOMAIN jobs : jobs[k].error = <<"Cancelled">>
  /\ pendingJobs' = Ids(FilterJobs(jobs, IsPending))
  /\ idx' = 1
  /\ passSettings' = settings
  /\ pc' = "loopTop"
  /\ UNCHANGED <<jobs, settings, envApiKey, nextId, job, lastStarted>>
  /\ UNCHANGED <<argVars, credVars, startVars, pollVars, waitMs, request, outcome, abortedAt, caught, keyVars>>

\* The effect calls processQueue, between two runs of the event loop:
\* lines 68-76.
processQueue ==
  /\ pc \in SuspendedPcs \cup {"idle"}
  /\ EffectDue
  /\ isProcessing' = TRUE
  /\ abortControllerRef' = "controller"
  /\ signalAborted' = FALSE
  /\ pendingJobs' = Ids(FilterJobs(jobs, IsPending))
  /\ idx' = 1
  /\ passSettings' = settings
  /\ pc' = "loopTop"
  /\ UNCHANGED <<jobs, settings, envApiKey, nextId, job, lastStarted>>
  /\ UNCHANGED <<argVars, credVars, startVars, pollVars, waitMs, request, outcome, abortedAt, caught, keyVars>>

\* The head of the for loop, lines 79-95: the pass ends, or the next job of
\* the list is started and generateVideo is called for it.
LoopTop ==
  /\ pc = "loopTop"
  /\ UNCHANGED <<settings, envApiKey, nextId, passSettings, keyVars>>
  /\ IF idx > Len(pendingJobs) \/ signalAborted
     THEN /\ EndPass
          /\ UNCHANGED <<jobs, credVars, startVars, pollVars, waitMs, request, outcome,
                         lastStarted, caught>>
     ELSE /\ job' = pendingJobs[idx]
          /\ lastStarted' = pendingJobs[idx]
          /\ jobs' = MarkProcessing(jobs, pendingJobs[idx])
          /\ argKey' = CustomKeyArg(passSettings)
          /\ argVertex' = VertexArg(passSettings)
          /\ FreshRun
          /\ pc' = "genStart"
          /\ UNCHANGED <<isProcessing, abortControllerRef, signalAborted, pendingJobs, idx,
                         abortedAt>>

\* Lines 97-125: generateVideo has returned or thrown.
Settle ==
  /\ pc = "returned"
  /\ UNCHANGED <<settings, envApiKey, nextId, passSettings, lastStarted, keyVars>>
  /\ FreshRun
  /\ IF outcome.kind = "blob"
     THEN /\ jobs' = MarkCompleted(jobs, job)
          /\ idx' = idx + 1
          /\ pc' = "loopTop"
          /\ UNCHANGED <<isProcessing, abortControllerRef, signalAborted, pendingJobs,
                         job, argVars, abortedAt>>
     ELSE IF IsCancellation(outcome)
     THEN /\ jobs' = MarkCancelled(jobs, job)
          /\ EndPass
     ELSE /\ jobs' = MarkFailed(jobs, job, outcome.message)
          /\ idx' = idx + 1
          /\ pc' = "loopTop"
          /\ UNCHANGED <<isProcessing, abortControllerRef, signalAborted, pendingJobs,
                         job, argVars, abortedAt>>

\* The remote API of Spec: one reply or error of every class the queue
\* processor can tell apart (a success, a cancellation, another failure, at
\* every step of the run), and MaxRemoteFailures retryable failures in a row.
QueueRemote ==
  Remote({ RunningOperation, Operation(TRUE, FALSE, FALSE, "none", <<>>, "none") },
         { RemoteError(429, 0, {}, TRUE), RemoteError(404, 0, {}, TRUE),
           RemoteError(403, 0, {}, FALSE) },
         { RunningOperation,
           Operation(TRUE, TRUE, TRUE, "none", <<>>, "url"),
           Operation(TRUE, TRUE, TRUE, "message", <<>>, "none") },
         MaxRemoteFailures)

Init ==
  /\ QueueIdle
  /\ KeyIdle
  /\ RunIdle
  /\ envApiKey = Undefined
  /\ pc = "idle"

Next ==
  \/ \E n \in 1..MaxFilesPerAdd : handleAddFiles(n)
  \/ \E i \in 1..MaxJobs : handleRemoveJob(i)
  \/ handleStop
  \/ handleClearAll
  \/ ChangeSettings
  \/ processQueue
  \/ LoopTop
  \/ Settle
  \/ GenStart
  \/ EncodeResolves
  \/ EncodeRejects
  \/ SubmitResolves(QueueRemote)
  \/ SubmitRejects(QueueRemote)
  \/ BackoffElapsed
  \/ InitialWaitElapsed
  \/ PollWaitElapsed
  \/ StatusResolves(QueueRemote)
  \/ StatusRejects(QueueRemote)
  \/ RateWaitElapsed
  \/ FetchResolves
  \/ FetchRejects
  \/ BlobResolves
  \/ BlobRejects

Spec == Init /\ [][Next]_vars

\* --------------------------------------------------------------- SpecLive
\* The steps the program takes by itself: the effect, the loop of the pass
\* and the run of generateVideo. The user's events are the other steps of
\* Next.
ProgramStep ==
  \/ processQueue
  \/ LoopTop
  \/ Settle
  \/ GenStart
  \/ EncodeResolves
  \/ EncodeRejects
  \/ SubmitResolves(QueueRemote)
  \/ SubmitRejects(QueueRemote)
  \/ BackoffElapsed
  \/ InitialWaitElapsed
  \/ PollWaitElapsed
  \/ StatusResolves(QueueRemote)
  \/ StatusRejects(QueueRemote)
  \/ RateWaitElapsed
  \/ FetchResolves
  \/ FetchRejects
  \/ BlobResolves
  \/ BlobRejects

\* A step with which a run of generateVideo returns or throws.
RunEnds == ProgramStep /\ pc # "returned" /\ pc' = "returned"

\* The application with its scheduling: the effect runs, every timer fires
\* and every promise settles (weak fairness of the program's steps), and
\* every run of generateVideo ends (strong fairness of its last step: the
\* remote API does not keep an operation running for ever).
SpecLive == Init /\ [][Next]_vars /\ WF_vars(ProgramStep) /\ SF_vars(RunEnds)

\* ------------------------------------------------------------- SpecFailing
\* A remote API that accepts a submission or fails it with a retryable
\* error, and fails every status call as rate-limited, unavailable or
\* not-found.
FailingRemote ==
  Remote({ RunningOperation },
         { RemoteError(429, 0, {}, TRUE), RemoteError(503, 0, {}, TRUE),
           RemoteError(404, 0, {}, TRUE) },
         {},
         MAX_POLLING_RETRIES + MAX_START_RETRIES)

NextFailing ==
  \/ GenStart
  \/ EncodeResolves
  \/ SubmitResolves(FailingRemote)
  \/ SubmitRejects(FailingRemote)
  \/ BackoffElapsed
  \/ InitialWaitElapsed
  \/ PollWaitElapsed
  \/ StatusRejects(FailingRemote)
  \/ RateWaitElapsed

\* One run of generateVideo against the failing remote API. Every timer
\* fires and every remote call settles, so a run that can take a step
\* takes one.
SpecFailing == InitDriver /\ [][NextFailing]_vars /\ WF_vars(NextFailing)

\* ---------------------------------------------------------------- SpecKey
\* Every string of at most MaxKeyLen characters, and undefined.
KeyStrings == UNION { [1..n -> Chars] : n \in 0..MaxKeyLen }

InitKey ==
  /\ QueueIdle
  /\ RunIdle
  /\ envApiKey = Undefined
  /\ pc = "idle"
  /\ key \in KeyStrings \cup {Undefined}
  /\ sanitized = <<"pending">>

\* Lines 78-84 with key as the raw key: it is sanitized, and the run is
\* refused when nothing is left.
SanitizeRawKey ==
  /\ sanitized = <<"pending">>
  /\ sanitized' = sanitizeKey(key)
  /\ outcome' = ResolveCredential(NoVertex, key, envApiKey).error
  /\ UNCHANGED <<jobs, queueVars, signalAborted, pc, argVars, credVars, startVars,
                 pollVars, waitMs, request, abortedAt, caught, key>>

NextKey == SanitizeRawKey

SpecKey == InitKey /\ [][NextKey]_vars

\* ================================================================== claims
JobIds == 1..MaxJobs

HasJob(js, i) == \E k \in DOMAIN js : js[k].id = i
JobOf(js, i) == js[CHOOSE k \in DOMAIN js : js[k].id = i]
StatusOf(js, i) == IF HasJob(js, i) THEN JobOf(js, i).status ELSE "absent"
ErrorOf(js, i) == IF HasJob(js, i) THEN JobOf(js, i).error ELSE Undefined

NumProcessing(js) == Cardinality({k \in DOMAIN js : js[k].status = PROCESSING})

\* A job appears as Pending, may be removed, and otherwise moves only
\* Pending -> Processing -> Completed or Failed.
StrictStep(a, b) ==
  \/ a = b
  \/ a = "absent" /\ b = PENDING
  \/ a # "absent" /\ b = "absent"
  \/ a = PENDING /\ b = PROCESSING
  \/ a = PROCESSING /\ b \in {COMPLETED, FAILED}

\* C1 as claimed: in every step, every job's status changes only along
\* Pending -> Processing -> Completed or Pending -> Processing -> Failed; no job
\* becomes Completed or Failed from another status than Processing, and none
\* returns to Pending.
C1_StrictLifecycle ==
  [][\A i \in JobIds : StrictStep(StatusOf(jobs, i), StatusOf(jobs', i))]_vars

\* C1 as amended: the same, except that the cancellation handler of a pass
\* moves every job that is still Pending directly to Failed with the error
\* "Stopped by user"; no job becomes Completed from another status than
\* Processing, and none returns to Pending.
C1_LifecycleWithStop ==
  [][\A i \in JobIds :
       \/ StrictStep(StatusOf(jobs, i), StatusOf(jobs', i))
       \/ /\ StatusOf(jobs, i) = PENDING
          /\ StatusOf(jobs', i) = FAILED
          /\ ErrorOf(jobs', i) = <<"Stopped by user">>
          /\ pc = "returned"
          /\ IsCancellation(outcome)
          /\ i # job]_vars

\* C1's case: one job has gone Pending -> Processing -> Completed, and a pass
\* was cancelled with another job still Pending.
C1_Witness ==
  /\ \E i \in JobIds : StatusOf(jobs, i) = FAILED /\ ErrorOf(jobs, i) = <<"Cancelled">>
  /\ \E i \in JobIds : StatusOf(jobs, i) = FAILED /\ ErrorOf(jobs, i) = <<"Stopped by user">>

\* C2: in every reachable state at most one job of the store is Processing.
C2_AtMostOneProcessing == NumProcessing(jobs) <= 1

\* C2's case: a job is Processing in a pass while the store holds a Pending
\* job that was added after the pass had taken its list.
C2_Witness ==
  /\ NumProcessing(jobs) = 1
  /\ \E i \in JobIds :
       /\ StatusOf(jobs, i) = PENDING
       /\ \A k \in DOMAIN pendingJobs : pendingJobs[k] # i

\* The steps of a run at which C3 and C4 say a cancellation is honoured.
ClaimedSteps == CallPcs \cup WaitPcs \cup DownloadPcs

\* C3 as claimed: when cancellation was requested while a job of the pass was
\* Processing, that job ends Failed with the error "Cancelled", and the pass
\* ends with no job of the store left Pending (each is Failed, "Stopped by
\* user"), so that none is submitted afterwards.
C3_CancelStopsTheBatch ==
  [][/\ (pc = "returned" /\ abortedAt \in ClaimedSteps)
         => /\ StatusOf(jobs', job) = FAILED
            /\ ErrorOf(jobs', job) = <<"Cancelled">>
     /\ (isProcessing /\ ~isProcessing' /\ abortedAt \in ClaimedSteps)
         => ~HasPending(jobs')]_vars

\* C4 as claimed: a run that was suspended at a submission call, a wait, a
\* status call or the asset download when its signal was aborted ends with
\* the AbortError, and with no other error and no result.
C4_AbortEndsWithAbortError ==
  (pc = "returned" /\ abortedAt \in ClaimedSteps) => outcome = AbortError

\* C5: the submission loop makes at most 51 calls that fail with a retryable
\* error; the 51st such failure ends the run with the retries-exhausted error,
\* and that error is raised only then; a run in which every call failed that
\* way has then made exactly 51 submission calls and 50 backoff waits.
C5_RetriesExhaustedOnThe51st ==
  /\ startAttempt <= MAX_START_RETRIES + 1
  /\ emptyReplies = 0 => startCalls <= MAX_START_RETRIES + 1
  /\ startAttempt = MAX_START_RETRIES + 1 => pc = "returned" /\ outcome = RetriesExhausted
  /\ outcome = RetriesExhausted =>
       /\ startAttempt = MAX_START_RETRIES + 1
       /\ startCalls = MAX_START_RETRIES + 1 + emptyReplies
       /\ startWaits = MAX_START_RETRIES

\* C5's case: every submission call of the run failed with a retryable error
\* and the run has ended with the retries-exhausted error.
C5_Witness ==
  /\ outcome = RetriesExhausted
  /\ emptyReplies = 0
  /\ startCalls = 51
  /\ ~signalAborted

\* C6: a status call that fails as not-found for the 120th time in a row
\* ends the run with the polling-timeout error, after which no status call is
\* made; one that fails so for fewer than 120 times in a row is followed by
\* the next poll wait; the count never passes 120.
C6_PollingTimeoutOnThe120th ==
  [][/\ (pc = "statusCall" /\ retryCount' = retryCount + 1) =>
          IF retryCount' = MAX_POLLING_RETRIES
          THEN pc' = "returned" /\ outcome' = PollingTimeout
          ELSE pc' = "pollWait" /\ outcome' = NoOutcome
     /\ retryCount' <= MAX_POLLING_RETRIES
     /\ outcome' = PollingTimeout => retryCount' = MAX_POLLING_RETRIES
     /\ outcome = PollingTimeout => pc' # "statusCall"]_vars

\* C6's case: 120 status calls in a row failed as not-found and the run has
\* ended with the polling-timeout error.
C6_Witness ==
  /\ pc = "returned"
  /\ outcome = PollingTimeout
  /\ retryCount = 120

RECURSIVE Power(_, _)
Power(b, n) == IF n = 0 THEN 1 ELSE b * Power(b, n - 1)

\* min(20000 * 1.5^(k-1), 120000); 1.5^5 * 20000 is already above the cap.
ExpectedBackoff(k) ==
  IF k >= 6 THEN 120000 ELSE Min((20000 * Power(3, k - 1)) \div Power(2, k - 1), 120000)

\* C7: the backoff wait that follows the k-th retryable failure of a run is
\* min(20000 * 1.5^(k-1), 120000) ms, whatever the failures were; it is never
\* above 120000 and never below the wait before it.
C7_BackoffSequence ==
  pc = "backoffWait" =>
    /\ startAttempt \in 1..MAX_START_RETRIES
    /\ waitMs = ExpectedBackoff(startAttempt)
    /\ waitMs <= 120000
    /\ startAttempt > 1 => waitMs >= ExpectedBackoff(startAttempt - 1)
    /\ startBackoff = waitMs

\* C7's case: the run waits 101250 ms after its fifth retryable failure.
C7_Witness ==
  /\ pc = "backoffWait"
  /\ startAttempt = 5
  /\ waitMs = 101250

\* The operation the run holds is completed, has no error payload and lists
\* at least one filter reason.
FilteredOperation ==
  /\ operation.exists
  /\ operation.hasName
  /\ operation.done
  /\ operation.error = "none"
  /\ Len(operation.reasons) > 0

\* C8: a run whose operation is completed without an error payload and with a
\* non-empty list of filter reasons never sends the download request, and it
\* ends with the content-filtered error carrying the first reason, whether or
\* not a video locator is present (only a cancellation during the submission
\* call or the initial wait, before the operation is examined, ends it
\* otherwise).
C8_ContentFilteredBeforeDownload ==
  FilteredOperation =>
    /\ pc \in {"initialWait", "returned"}
    /\ ~request.sent
    /\ pc = "returned" =>
         \/ outcome = ContentFiltered(operation.reasons[1])
         \/ abortedAt \in {"submitCall", "initialWait"} /\ outcome = AbortError

\* C8's case: the completed operation has a video locator and two filter
\* reasons, and the run has ended with the first of them.
C8_Witness ==
  /\ FilteredOperation
  /\ operation.uri = "url"
  /\ operation.reasons = <<"r2", "r1">>
  /\ pc = "returned"
  /\ outcome = ContentFiltered("r2")

\* The delegated configuration has a project id and a token and no location.
LocationMissing ==
  /\ argVertex.defined
  /\ ~Falsy(argVertex.projectId)
  /\ ~Falsy(argVertex.accessToken)
  /\ Falsy(argVertex.location)

\* C9: a run whose delegated configuration has a project id and a token but
\* no location ends with the missing-location error at its first step: it
\* makes no submission, status or download call and builds no client from a
\* key, even when a key is available.
C9_MissingLocationBeforeAnyCall ==
  LocationMissing =>
    /\ pc \in {"genStart", "returned"}
    /\ pc = "returned" => outcome = MissingLocation
    /\ startCalls = 0
    /\ ~request.sent
    /\ apiKey = Undefined
    /\ ~usingVertex

\* C9's case: the run has refused a configuration without location although
\* a usable key was passed.
C9_Witness ==
  /\ LocationMissing
  /\ pc = "returned"
  /\ outcome = MissingLocation
  /\ ~Falsy(ResolveApiKey(argKey, envApiKey))

\* A run of n white-space characters.
Spaces(n) == [i \in 1..n |-> WS]

\* An inner token: ordinary characters only.
Tokens == UNION { [1..n -> {CH}] : n \in 1..MaxKeyLen }

\* The string is the token in one layer of matching quotes, with white space
\* around the quotes and inside them.
Wraps(s, tok) ==
  \E q \in {DQ, SQ} : \E a, b, c, d \in 0..MaxKeyLen :
    s = Spaces(a) \o <<q>> \o Spaces(b) \o tok \o Spaces(c) \o <<q>> \o Spaces(d)

\* C10 as claimed: sanitizing a token wrapped in one layer of matching quotes,
\* with white space around the quotes and inside them, yields exactly the
\* token; and a key that sanitizes to the empty string is refused as missing
\* credentials.
C10_SanitizeYieldsInnerToken ==
  sanitized # <<"pending">> =>
    /\ \A tok \in Tokens : Wraps(key, tok) => sanitized = tok
    /\ sanitized = <<>> => outcome = MissingCredentials

\* The delegated configuration has a project id, a location and a token.
TripleComplete ==
  /\ argVertex.defined
  /\ ~Falsy(argVertex.projectId)
  /\ ~Falsy(argVertex.location)
  /\ ~Falsy(argVertex.accessToken)

\* The run has taken the direct-key path with the key that resolves, or has
\* ended with the missing-credentials error because none resolves.
KeyPathOrMissingCredentials ==
  IF Falsy(ResolveApiKey(argKey, envApiKey))
  THEN pc = "returned" /\ outcome = MissingCredentials /\ apiKey = Undefined /\ ~usingVertex
  ELSE apiKey = ResolveApiKey(argKey, envApiKey) /\ ~usingVertex /\ outcome # MissingCredentials

\* C11 as claimed: a run that is past its initialization uses delegated
\* authentication only when project id, location and token are all non-empty;
\* when any of the three is missing it has taken the direct-key path, or has
\* failed with the missing-credentials error when no key resolves.
C11_PartialTripleFallsBack ==
  pc # "genStart" =>
    /\ usingVertex => TripleComplete
    /\ ~TripleComplete => KeyPathOrMissingCredentials

\* C11 as amended: the same, except that a configuration with project id and
\* token but no location ends the run with the missing-location error, on
\* neither path; and a complete triple always takes the delegated path.
C11_PartialTripleFallsBackOrNoLocation ==
  pc # "genStart" =>
    /\ usingVertex <=> TripleComplete
    /\ TripleComplete => apiKey = Undefined
    /\ LocationMissing =>
         pc = "returned" /\ outcome = MissingLocation /\ apiKey = Undefined
    /\ (~TripleComplete /\ ~LocationMissing) => KeyPathOrMissingCredentials

\* C11's case: a configuration with a project id and no token was passed with
\* a key, and the run has submitted on the direct-key path.
C11_Witness ==
  /\ argVertex.defined
  /\ ~Falsy(argVertex.projectId)
  /\ Falsy(argVertex.accessToken)
  /\ pc = "submitCall"
  /\ apiKey = <<CH>>
  /\ ~usingVertex

\* generateVideo is called for a job in this step.
StartsJob == pc = "loopTop" /\ pc' = "genStart"

\* C12: a job becomes Processing only in the step that calls generateVideo
\* for it; at that step no other job is Processing, every job started before
\* is Completed, Failed or gone, and the job was enqueued after every job
\* started before it (ids grow in enqueue order), in whichever pass it runs.
C12_SequentialInEnqueueOrder ==
  [][/\ StartsJob =>
          /\ job' > lastStarted
          /\ lastStarted' = job'
          /\ \A k \in JobIds :
               /\ k # job' => StatusOf(jobs', k) # PROCESSING
               /\ k <= lastStarted => StatusOf(jobs', k) \in {"absent", COMPLETED, FAILED}
     /\ \A i \in JobIds :
          (StatusOf(jobs, i) # PROCESSING /\ StatusOf(jobs', i) = PROCESSING)
            => StartsJob /\ job' = i]_vars

\* C12's case: job 2 was not in the list of the pass that completed job 1,
\* and a later pass has started it.
C12_Witness ==
  /\ StatusOf(jobs, 1) = COMPLETED
  /\ StatusOf(jobs, 2) = PROCESSING
  /\ pendingJobs = <<2>>
  /\ lastStarted = 2

\* C13 as claimed: in every reachable state, a job that is not Processing has
\* no progress text.
C13_ProgressOnlyWhileProcessing ==
  \A k \in DOMAIN jobs : jobs[k].status # PROCESSING => jobs[k].progress = NoProgress

\* C13 as amended: a Pending job has no progress text and a Processing job
\* has one; a Completed job carries the text "Done"; a Failed job carries the
\* text it had while Processing, and none only when it was stopped while
\* Pending.
C13_ProgressByStatus ==
  \A k \in DOMAIN jobs :
    /\ jobs[k].status = PENDING => jobs[k].progress = NoProgress
    /\ jobs[k].status = PROCESSING => jobs[k].progress # NoProgress
    /\ jobs[k].status = COMPLETED => jobs[k].progress = Fixed("Done")
    /\ jobs[k].status = FAILED =>
         /\ jobs[k].progress # Fixed("Done")
         /\ jobs[k].progress = NoProgress <=> jobs[k].error = <<"Stopped by user">>

\* C13's case: the store holds a Completed job with the text "Done" and a
\* Failed job that still carries the text of its download step.
C13_Witness ==
  /\ \E k \in DOMAIN jobs : jobs[k].status = COMPLETED /\ jobs[k].progress = Fixed("Done")
  /\ \E k \in DOMAIN jobs :
       jobs[k].status = FAILED /\ jobs[k].progress = Fixed("Downloading result...")

\* C14: in every reachable state, a job has a video reference exactly when it
\* is Completed, and an error message exactly when it is Failed; the message
\* of a Failed job is not empty.
C14_ResultAndErrorByStatus ==
  \A k \in DOMAIN jobs :
    /\ jobs[k].videoUrl # "undefined" <=> jobs[k].status = COMPLETED
    /\ jobs[k].error # Undefined <=> jobs[k].status = FAILED
    /\ jobs[k].status = FAILED => ~Falsy(jobs[k].error)

\* C14's case: a job was completed, and another failed with an error that
\* had no message of its own.
C14_Witness ==
  /\ \E k \in DOMAIN jobs : jobs[k].status = COMPLETED /\ jobs[k].videoUrl = "blob:"
  /\ \E k \in DOMAIN jobs : jobs[k].status = FAILED /\ jobs[k].error = <<"Failed">>

\* What C15 says stays as it is: status, video reference and error.
Verdict(js, i) ==
  IF HasJob(js, i)
  THEN <<JobOf(js, i).status, JobOf(js, i).videoUrl, JobOf(js, i).error>>
  ELSE <<"absent">>

\* The step is a removal of job i or a bulk clear, and nothing else.
RemovesOrClears(i) ==
  /\ LET keep(j) == j.id # i IN jobs' = FilterJobs(jobs, keep) \/ jobs' = <<>>
  /\ pc' = pc
  /\ outcome' = outcome
  /\ isProcessing' = isProcessing

\* C15: in every step, a job that is Completed or Failed keeps its status,
\* video reference and error, or leaves the store by a removal or a bulk
\* clear.
C15_TerminalJobsStay ==
  [][\A i \in JobIds :
       StatusOf(jobs, i) \in {COMPLETED, FAILED} =>
         \/ Verdict(jobs', i) = Verdict(jobs, i)
         \/ ~HasJob(jobs', i) /\ RemovesOrClears(i)]_vars

\* C15's case: a pass was cancelled, and its handler ran, with a Completed
\* job in the store.
C15_Witness ==
  /\ \E i \in JobIds : StatusOf(jobs, i) = COMPLETED
  /\ \E i \in JobIds : StatusOf(jobs, i) = FAILED /\ ErrorOf(jobs, i) = <<"Cancelled">>

\* C16: in every step, a job that is Processing stays in the store, as
\* Processing, Completed or Failed; and no bulk clear happens while a pass is
\* active (the store empties then only by the removal of its last job).
C16_ProcessingJobStays ==
  [][/\ \A i \in JobIds :
          StatusOf(jobs, i) = PROCESSING =>
            StatusOf(jobs', i) \in {PROCESSING, COMPLETED, FAILED}
     /\ (isProcessing /\ jobs # <<>> /\ jobs' = <<>>) =>
          Len(jobs) = 1 /\ jobs[1].status # PROCESSING]_vars

\* C16's case: job 1 is Processing, and job 2 was removed from the store
\* during the pass.
C16_Witness ==
  /\ StatusOf(jobs, 1) = PROCESSING
  /\ nextId = 2
  /\ ~HasJob(jobs, 2)
  /\ pendingJobs = <<1, 2>>

\* C17 as claimed: every failure the run recovers from locally is retried up
\* to a cap, so a run whose remote calls keep failing ends after a bounded
\* number of them: against a remote API that fails every status call, and
\* any number of submissions, every run eventually ends.
C17_EveryRetryIsCapped == <>(pc = "returned")

\* C18: in every step of a run whose signal is aborted, no submission call
\* and no status call is made (the step does not leave the run awaiting
\* one), and no step leaves the run waiting on a timer once the signal is
\* aborted.
C18_NoCallAfterAbort ==
  [][/\ signalAborted => (pc' \notin CallPcs /\ startCalls' <= startCalls)
     /\ signalAborted' => pc' \notin WaitPcs]_vars

\* C18's case: the signal was aborted while a submission call was in flight,
\* the call resolved with no operation, and the run ended at the head of the
\* loop instead of submitting again.
C18_Witness ==
  /\ abortedAt = "submitCall"
  /\ emptyReplies = 1
  /\ startCalls = 1
  /\ pc = "returned"
  /\ outcome = AbortError

\* The error is rate-limited as the claims describe it: status or code 429,
\* or a rate-limit or quota marker in its serialized form.
ClaimedRateLimited(e) ==
  \/ e.status = 429
  \/ e.code = 429
  \/ e.markers \cap {"429", "RESOURCE_EXHAUSTED", "quota"} # {}

\* The error is transient-server: status 500 or 503.
ClaimedTransient(e) == e.status \in {500, 503}

\* C19: a submission call of a run that is not cancelled, failing with an
\* error that is neither rate-limited nor transient-server, ends the run in
\* that step with the error's message (a fixed text when it has none):
\* no backoff wait is started, no attempt is counted and no further
\* submission is made, however many retryable failures came before.
C19_FatalStartErrorSurfacesAtOnce ==
  [][(/\ pc = "submitCall"
      /\ caught' # NoCaught
      /\ ~ClaimedRateLimited(caught')
      /\ ~ClaimedTransient(caught')
      /\ ~signalAborted)
       => /\ pc' = "returned"
          /\ outcome' = Thrown("Error", IF caught'.hasMessage
                                        THEN <<"remote message">>
                                        ELSE <<"Failed to start generation">>)
          /\ UNCHANGED <<startAttempt, startWaits, startCalls, startBackoff>>]_vars

\* C19's case: after two retryable failures and their waits, the third
\* submission call failed with status 400 and the run ended with its message.
C19_Witness ==
  /\ pc = "returned"
  /\ caught = RemoteError(400, 0, {}, TRUE)
  /\ startAttempt = 2
  /\ startWaits = 2
  /\ startCalls = 3
  /\ operation = NoOperation
  /\ outcome = Thrown("Error", <<"remote message">>)

\* The error is not-found as the claims describe it: status or code 404, or
\* a not-found marker in its serialized form.
ClaimedNotFound(e) ==
  \/ e.status = 404
  \/ e.code = 404
  \/ e.markers \cap {"404", "NOT_FOUND", "Requested entity was not found"} # {}

\* The error of a status call is rate-limited: status or code 429, or a
\* rate-limit marker in its serialized form.
ClaimedPollRateLimited(e) ==
  \/ e.status = 429
  \/ e.code = 429
  \/ e.markers \cap {"429", "RESOURCE_EXHAUSTED"} # {}

\* A status call of a run that is not cancelled settles in this step.
StatusCallSettles ==
  /\ pc = "statusCall"
  /\ pc' # "statusCall"
  /\ ~signalAborted
  /\ ~signalAborted'

\* C20: when a status call of a run that is not cancelled settles, the
\* not-found counter becomes 0 if the call succeeded; it grows by exactly 1
\* if the call failed as not-found, also when the error matches the
\* rate-limit markers too, and no 20000 ms wait is added; it stays as it is
\* if the call failed as rate-limited only, and the run then waits 20000 ms.
C20_NotFoundCounter ==
  [][StatusCallSettles =>
       /\ caught' = NoCaught => retryCount' = 0
       /\ (caught' # NoCaught /\ ClaimedNotFound(caught')) =>
            /\ retryCount' = retryCount + 1
            /\ pc' # "rateWait"
            /\ waitMs' \in {0, PollInterval}
       /\ (caught' # NoCaught /\ ~ClaimedNotFound(caught') /\ ClaimedPollRateLimited(caught')) =>
            /\ retryCount' = retryCount
            /\ pc' = "rateWait"
            /\ waitMs' = 20000]_vars

\* C20's case: the third status call in a row to fail as not-found failed
\* with an error that matches the rate-limit markers as well, and the run
\* went on to its next poll wait.
C20_Witness ==
  /\ pc = "pollWait"
  /\ caught = RemoteError(404, 0, {"RESOURCE_EXHAUSTED"}, TRUE)
  /\ retryCount = 3
  /\ waitMs = PollInterval

\* C21: a submission call that resolves with an operation that has no name
\* ends the run with the no-operation-name error, with no timer started, no
\* status call and no download request; and as long as the run holds no
\* operation object at all it is never in the polling loop or the download.
C21_NoHandleNoPolling ==
  /\ (operation.exists /\ ~operation.hasName) =>
       /\ pc = "returned"
       /\ outcome = Thrown("Error", <<"Failed to start video generation: No operation name returned.">>)
       /\ waitMs = 0
       /\ ~request.sent
  /\ ~operation.exists =>
       /\ pc \notin {"initialWait", "pollWait", "statusCall", "rateWait", "fetch", "blob"}
       /\ ~request.sent

C21_Witness ==
  /\ operation.exists
  /\ ~operation.hasName
  /\ pc = "returned"
  /\ outcome.kind = "error"

\* The run was aborted before the polling loop looked at the operation.
AbortedBeforePolling ==
  /\ abortedAt \in {"submitCall", "initialWait"}
  /\ outcome = Thrown("AbortError", <<"Aborted">>)

\* C22: a run whose operation is complete with an error payload sends no
\* download request and, unless it was aborted before the polling loop,
\* ends with the payload's message, or the generic message when the payload
\* has none, whatever filter reasons and locator the operation carries; a
\* run whose operation is complete with no error, no filter reasons and no
\* locator ends with the no-video-URI error.
C22_ErrorPayloadFirst ==
  /\ (operation.done /\ operation.error # "none") =>
       /\ ~request.sent
       /\ pc \in {"initialWait", "returned"}
       /\ pc = "returned" =>
            \/ AbortedBeforePolling
            \/ /\ operation.error = "message"
               /\ outcome = Thrown("Error", <<"operation error message">>)
            \/ /\ operation.error = "bare"
               /\ outcome = Thrown("Error", <<"Unknown error during video generation">>)
  /\ (operation.done /\ operation.error = "none" /\ operation.reasons = <<>>
        /\ operation.uri = "none") =>
       /\ ~request.sent
       /\ pc \in {"initialWait", "returned"}
       /\ pc = "returned" =>
            \/ AbortedBeforePolling
            \/ outcome = Thrown("Error", <<"No video URI returned. Check console for operation details.">>)

C22_Witness ==
  /\ operation.done
  /\ operation.error = "bare"
  /\ Len(operation.reasons) > 0
  /\ operation.uri = "url"
  /\ pc = "returned"
  /\ outcome = Thrown("Error", <<"Unknown error during video generation">>)

\* C23 as claimed: when generateVideo has thrown an error that is not a
\* cancellation, the loop's job becomes Failed with the error's message
\* ("Failed" when it has none), no other job of the store changes, and the
\* pass then starts the next job of its list when there is one.
C23_FailureContinuesThePass ==
  [][/\ (pc = "returned" /\ outcome.kind = "error"
           /\ outcome.name # "AbortError" /\ outcome.message # <<"Aborted">>)
         => /\ Len(jobs') = Len(jobs)
            /\ \A k \in DOMAIN jobs :
                 IF jobs[k].id = job
                 THEN /\ jobs'[k].status = FAILED
                      /\ jobs'[k].error = IF outcome.message = <<>> THEN <<"Failed">>
                                          ELSE outcome.message
                 ELSE jobs'[k] = jobs[k]
            /\ pc' = "loopTop"
            /\ pendingJobs' = pendingJobs
            /\ idx' = idx + 1
     /\ (pc = "loopTop" /\ idx > 1 /\ idx <= Len(pendingJobs))
         => /\ pc' = "genStart"
            /\ job' = pendingJobs[idx]]_vars

\* C24: a download request carries the credential in one place, fixed by the
\* credential the run chose at its start. A run with the delegated
\* credential sends the trimmed access token as the bearer authorization
\* header and no key parameter; a run with a direct key sends the key its
\* client was built with as the key query parameter and no authorization
\* header.
C24_CredentialInOnePlace ==
  request.sent =>
    IF usingVertex
    THEN /\ request.bearer = Trim(argVertex.accessToken)
         /\ request.bearer # Undefined
         /\ request.keyParam = Undefined
    ELSE /\ request.keyParam = apiKey
         /\ ~Falsy(request.keyParam)
         /\ request.bearer = Undefined

C24_Witness ==
  /\ request.sent
  /\ usingVertex
  /\ ~Falsy(argKey)
  /\ argVertex.accessToken # Trim(argVertex.accessToken)
  /\ pc = "fetch"

\* C25 as claimed: a run with a direct key whose completed operation carries
\* a locator that does not parse as a URL still sends the download request,
\* with the key attached, instead of ending on the parse error.
C25_UnparsableLocatorStillDownloads ==
  (/\ pc = "returned"
   /\ ~signalAborted
   /\ ~usingVertex
   /\ operation.done
   /\ operation.error = "none"
   /\ operation.reasons = <<>>
   /\ operation.uri = "text")
    => /\ request.sent
       /\ request.keyParam = apiKey
       /\ outcome # Thrown("Error", <<"Video download error: ", "Invalid URL">>)

\* C26: every pass has a cancellation token of its own. A pass starts with
\* its token unset, whatever was cancelled before; the token is set only by
\* a stop requested while this pass had a run suspended; and a run ends as a
\* cancellation, which is what makes jobs "Cancelled" and "Stopped by user",
\* only when the token of its own pass is set.
C26_TokenPerPass ==
  /\ (pc = "loopTop" /\ idx = 1) => ~signalAborted
  /\ signalAborted => (isProcessing /\ abortedAt \in SuspendedPcs)
  /\ (pc = "returned" /\ (outcome.name = "AbortError" \/ outcome.message = <<"Aborted">>))
       => signalAborted

\* A job of a later pass is about to complete after a job of an earlier pass
\* was cancelled.
C26_Witness ==
  /\ \E i \in JobIds : HasJob(jobs, i) /\ ErrorOf(jobs, i) = <<"Cancelled">>
  /\ pc = "returned"
  /\ outcome.kind = "blob"
  /\ StatusOf(jobs, job) = PROCESSING
  /\ ~signalAborted

\* C27 as claimed: generateVideo is called, and a submission call made, only
\* for a job that is in the job store: when the call is made the job is
\* there, Processing since its turn started.
C27_OnlyStoredJobsAreSubmitted ==
  (isProcessing /\ pc \in {"genStart", "encode", "submitCall"})
    => /\ HasJob(jobs, job)
       /\ StatusOf(jobs, job) = PROCESSING

\* C28: while a job is Processing the active-batch marker is set and the
\* ref holds the pass's controller; a pass that begins finds no job
\* Processing, so that no two passes are active together; and the marker is
\* set and the controller held exactly while a pass is active: both are
\* cleared when the pass ends, at the end of its list or early.
C28_MarkerAndControllerFollowThePass ==
  /\ NumProcessing(jobs) > 0 => (isProcessing /\ abortControllerRef = "controller")
  /\ (pc = "loopTop" /\ idx = 1) => NumProcessing(jobs) = 0
  /\ isProcessing <=> abortControllerRef = "controller"
  /\ isProcessing <=> pc # "idle"

\* A job is Processing in a pass that began after an earlier pass was
\* stopped.
C28_Witness ==
  /\ NumProcessing(jobs) = 1
  /\ isProcessing
  /\ abortControllerRef = "controller"
  /\ \E i \in JobIds : HasJob(jobs, i) /\ ErrorOf(jobs, i) = <<"Cancelled">>

\* C29: when every run of generateVideo ends, every job that is Pending in
\* the store later is Completed or Failed, or was removed: a pass starts
\* whenever Pending jobs exist and no pass is active, also for the jobs that
\* were added while an earlier pass was running.
C29_PendingJobsAreSettled ==
  \A i \in JobIds :
    (StatusOf(jobs, i) = PENDING) ~> (StatusOf(jobs, i) \in {COMPLETED, FAILED, "absent"})

\* A later pass begins for job 2 after an earlier pass completed job 1.
C29_Witness ==
  /\ pc = "loopTop"
  /\ idx = 1
  /\ pendingJobs = <<2>>
  /\ StatusOf(jobs, 1) = COMPLETED
  /\ StatusOf(jobs, 2) = PENDING

\* The run has thrown what processQueue takes for a cancellation.
CancellationSettles ==
  /\ pc = "returned"
  /\ outcome.kind = "error"
  /\ (outcome.name = "AbortError" \/ outcome.message = <<"Aborted">>)

\* The job a step of the pass writes to: the job the loop starts, or the
\* loop's job.
TargetedJob == IF pc = "loopTop" THEN job' ELSE job

\* C30: every step of a pass or of its run (a start, a progress text, a
\* completion, a failure, a cancellation) keeps every job's place,
\* identifier and input file; every such step but the cancellation changes
\* no record other than the targeted job's, and changes nothing when the
\* targeted job is not in the store.
C30_UpdatesTouchOnlyTheTargetedJob ==
  [][pc' # pc =>
       /\ Len(jobs') = Len(jobs)
       /\ \A k \in DOMAIN jobs :
            /\ jobs'[k].id = jobs[k].id
            /\ jobs'[k].file = jobs[k].file
            /\ (~CancellationSettles /\ jobs[k].id # TargetedJob) => jobs'[k] = jobs[k]
       /\ (~CancellationSettles /\ ~HasJob(jobs, TargetedJob)) => jobs' = jobs]_vars

\* A run is under way for a job that is no longer in the store, next to a
\* job that is: its progress texts have changed nothing.
C30_Witness ==
  /\ pc = "submitCall"
  /\ job = 2
  /\ ~HasJob(jobs, 2)
  /\ HasJob(jobs, 1)
  /\ JobOf(jobs, 1).progress = Fixed("Done")

====
